---- MODULE Spec2Model ----
(***************************************************************************)
(* Model of src/rtPathUtils.cpp (pxCore): path, environment and module     *)
(* directory helpers.                                                      *)
(*                                                                         *)
(* Strings (rtString, std::string, char* ) are sequences of one-character  *)
(* strings; indices of the C++ API are 0-based and are kept 0-based in the *)
(* operators' parameters and results.  A null char* is the value NULL.     *)
(***************************************************************************)
EXTENDS Integers, Sequences, FiniteSets, TLC

VARIABLES
  fs,          \* filesystem: [dirs, files, ro] sets of nodes
  mkDir,       \* argument of the last rtMakeDirectory call
  mkRet,       \* its return value
  mkCreates,   \* the mkdir calls it issued, in order: <<sub, retVal>>
  mkVisits,    \* the prefixes it passed to rtFileExists, in order
  mkCalls,     \* number of rtMakeDirectory calls made
  mkPrev,      \* the call before the last: [dir, ret, creates, called]
  env,         \* process environment: name -> value, NULL when unset
  env0,        \* the environment at process start
  cwd,         \* what getcwd(NULL, 0) returns: a string, NULL on failure
  lastPut,     \* name -> value of the last rtPathUtilPutEnv for it, or NoPut
  last,        \* the last operation with its arguments and results
  mModuleInstance,  \* rtModuleDirs::mModuleInstance: object id, 0 when NULL
  heap,        \* live rtModuleDirs objects: id -> mModuleDirs
  destroyed,   \* [valid, dirs]: destroy() released an instance with list
               \* dirs and instance() has not been called since
  ctorIn,      \* inputs of the last rtModuleDirs construction: [value, cwd]
  ctorOut,     \* the mModuleDirs it built
  ctorCalled,  \* TRUE once a construction has run
  rrRelative,  \* arguments and result of the last rtResolveRelativePath
  rrBase,
  rrResult,
  rrCalled

mkVars == <<fs, mkDir, mkRet, mkCreates, mkVisits, mkCalls, mkPrev>>
envVars == <<env, env0, cwd, lastPut, last>>
dirsVars == <<mModuleInstance, heap, destroyed>>
ctorVars == <<ctorIn, ctorOut, ctorCalled>>
rrVars == <<rrRelative, rrBase, rrResult, rrCalled>>

vars == <<mkVars, envVars, dirsVars, ctorVars, rrVars>>

----------------------------------------------------------------------------
(* Bounds *)
MaxPathLen == 3
MaxCalls == 2
MaxEnvLen == 1
MaxObjects == 2
MaxListLen == 5
MaxBaseLen == 5
MaxRelLen == 1

----------------------------------------------------------------------------
(* Strings *)

NULL == <<"null">>

RECURSIVE StringsUpTo(_, _)
StringsUpTo(S, n) ==
  IF n = 0 THEN {<<>>}
  ELSE LET T == StringsUpTo(S, n - 1)
       IN T \cup {Append(t, c) : t \in {u \in T : Len(u) = n - 1}, c \in S}

\* rtString::operator=(const char*): a null pointer gives the empty string
rtStringOf(p) == IF p = NULL THEN <<>> ELSE p

\* rtString::find(pos, ch): index of the first ch at or after pos, else -1
find(s, pos, ch) ==
  LET hits == {k \in (pos + 1)..Len(s) : s[k] = ch}
  IN IF hits = {} THEN -1
     ELSE (CHOOSE k \in hits : \A j \in hits : k <= j) - 1

\* rtString::substring(pos, len)
substring(s, pos, len) ==
  LET stop == IF pos + len > Len(s) THEN Len(s) ELSE pos + len
  IN SubSeq(s, pos + 1, stop)

\* rtString::endsWith(ch)
endsWith(s, ch) == Len(s) > 0 /\ s[Len(s)] = ch

\* rtString::isEmpty
isEmpty(s) == Len(s) = 0

----------------------------------------------------------------------------
(* Filesystem seen through stat(2) and mkdir(2).  A node is the sequence   *)
(* <<root, name1, ..., namek>>; root is "/" for an absolute path and "."   *)
(* (the working directory) for a relative one.  Every node of fs.dirs and  *)
(* fs.files other than a root has its parent in fs.dirs.  fs.ro are the    *)
(* directories in which the process may not create entries.                *)

PathChar == {"a", "/"}

RECURSIVE Components(_, _)
\* the non-empty names between slashes of path; cur is the name being read
Components(path, cur) ==
  IF path = <<>> THEN (IF cur = <<>> THEN <<>> ELSE <<cur>>)
  ELSE IF Head(path) = "/"
       THEN (IF cur = <<>> THEN <<>> ELSE <<cur>>) \o Components(Tail(path), <<>>)
       ELSE Components(Tail(path), Append(cur, Head(path)))

Node(path) ==
  <<IF Head(path) = "/" THEN "/" ELSE ".">> \o Components(path, <<>>)

Parent(node) == SubSeq(node, 1, Len(node) - 1)

\* stat(path, &buffer) == 0
stat(f, path) ==
  /\ path # <<>>
  /\ \/ Node(path) \in f.dirs
     \/ Node(path) \in f.files /\ ~endsWith(path, "/")

\* mkdir(path, 0777): the return value and the filesystem afterwards
mkdir(f, path) ==
  IF /\ path # <<>>
     /\ Node(path) \notin f.dirs \cup f.files
     /\ Parent(Node(path)) \in f.dirs
     /\ Parent(Node(path)) \notin f.ro
  THEN [ret |-> 0, fs |-> [f EXCEPT !.dirs = @ \cup {Node(path)}]]
  ELSE [ret |-> -1, fs |-> f]

rtFileExists(f, path) == stat(f, path)

----------------------------------------------------------------------------
(* rtMakeDirectory *)

\* MkBody without the rtFileExists test: every prefix is passed to mkdir
MkBody_NoStat(dir, st) ==
  LET pos == find(dir, st.i + 1, "/")
      sub == IF pos = -1 THEN dir ELSE substring(dir, 0, pos + 1)
      r == mkdir(st.fs, sub)
  IN [i |-> pos, retVal |-> r.ret, fs |-> r.fs,
      creates |-> Append(st.creates, <<sub, r.ret>>),
      visits |-> st.visits,
      done |-> (r.ret # 0 \/ pos = -1)]

\* MkBody without the break after a failed mkdir
MkBody_NoBreak(dir, st) ==
  LET pos == find(dir, st.i + 1, "/")
      sub == IF pos = -1 THEN dir ELSE substring(dir, 0, pos + 1)
      vis == Append(st.visits, sub)
  IN IF ~rtFileExists(st.fs, sub)
     THEN LET r == mkdir(st.fs, sub)
          IN [i |-> pos, retVal |-> r.ret, fs |-> r.fs,
              creates |-> Append(st.creates, <<sub, r.ret>>),
              visits |-> vis,
              done |-> (pos = -1)]
     ELSE [i |-> pos, retVal |-> st.retVal, fs |-> st.fs,
           creates |-> st.creates, visits |-> vis, done |-> (pos = -1)]

\* one pass through the body of the do-while loop; st.i is the loop variable
MkBody(dir, st) ==
  LET pos == find(dir, st.i + 1, "/")
      sub == IF pos = -1 THEN dir ELSE substring(dir, 0, pos + 1)
      vis == Append(st.visits, sub)
  IN IF ~rtFileExists(st.fs, sub)
     THEN LET r == mkdir(st.fs, sub)
          IN [i |-> pos, retVal |-> r.ret, fs |-> r.fs,
              creates |-> Append(st.creates, <<sub, r.ret>>),
              visits |-> vis,
              done |-> (r.ret # 0 \/ pos = -1)]
     ELSE [i |-> pos, retVal |-> st.retVal, fs |-> st.fs,
           creates |-> st.creates, visits |-> vis, done |-> (pos = -1)]

RECURSIVE MkLoop(_, _)
MkLoop(dir, st) ==
  LET nx == MkBody(dir, st)
  IN IF nx.done THEN nx ELSE MkLoop(dir, nx)

rtMakeDirectory(f, dir) ==
  LET st == MkLoop(dir, [i |-> 0, retVal |-> 0, fs |-> f,
                         creates |-> <<>>, visits |-> <<>>, done |-> FALSE])
  IN [ret |-> (st.retVal = 0), fs |-> st.fs,
      creates |-> st.creates, visits |-> st.visits]

PathStrings == StringsUpTo(PathChar, MaxPathLen)

\* filesystem states at start: entries a and a/a under the working
\* directory, each absent, a directory or a regular file
A == <<"a">>
InitNodes == {<<".", A>>, <<".", A, A>>}
Roots == {<<".">>, <<"/">>}

InitFS ==
  {[dirs |-> Roots \cup d, files |-> fl, ro |-> r] :
     d \in SUBSET InitNodes, fl \in SUBSET InitNodes, r \in SUBSET {<<".">>, <<".", A>>}}

FSValid(f) ==
  /\ f.dirs \cap f.files = {}
  /\ \A n \in (f.dirs \cup f.files) \ Roots : Parent(n) \in f.dirs
  /\ f.ro \subseteq f.dirs

NoCall == [dir |-> <<>>, ret |-> FALSE, creates |-> <<>>, called |-> FALSE]

MkInit ==
  /\ fs \in {f \in InitFS : FSValid(f)}
  /\ mkDir = <<>>
  /\ mkRet = FALSE
  /\ mkCreates = <<>>
  /\ mkVisits = <<>>
  /\ mkCalls = 0
  /\ mkPrev = NoCall

MakeDirectory ==
  /\ mkCalls < MaxCalls
  /\ \E dir \in PathStrings :
       LET r == rtMakeDirectory(fs, dir)
       IN /\ fs' = r.fs
          /\ mkDir' = dir
          /\ mkRet' = r.ret
          /\ mkCreates' = r.creates
          /\ mkVisits' = r.visits
  /\ mkCalls' = mkCalls + 1
  /\ mkPrev' = [dir |-> mkDir, ret |-> mkRet, creates |-> mkCreates,
                called |-> (mkCalls > 0)]
  /\ UNCHANGED <<envVars, dirsVars, ctorVars, rrVars>>

MkIdle ==
  /\ fs = [dirs |-> Roots, files |-> {}, ro |-> {}]
  /\ mkDir = <<>>
  /\ mkRet = FALSE
  /\ mkCreates = <<>>
  /\ mkVisits = <<>>
  /\ mkCalls = 0
  /\ mkPrev = NoCall

----------------------------------------------------------------------------
(* Environment and working directory (the POSIX branches of the source) *)

EnvNames == {"HOME", "RT_MODULE_PATH"}
EnvChar == {"/", ":"}
EnvValues == StringsUpTo(EnvChar, MaxEnvLen)
CwdResults == {NULL, <<"/">>, <<"/", "w">>}
NoPut == <<"noput">>

\* getenv(name)
getenv(e, name) == e[name]

\* setenv(name, value, 1)
setenv(e, name, value) == [ret |-> 0, env |-> [e EXCEPT ![name] = value]]

\* unsetenv(name)
unsetenv(e, name) == [ret |-> 0, env |-> [e EXCEPT ![name] = NULL]]

rtGetCurrentDirectory(c, d) ==
  [err |-> "RT_OK", d |-> IF c # NULL THEN c ELSE d]

rtEnsureTrailingPathSeparator(d) ==
  [err |-> "RT_OK", d |-> IF ~endsWith(d, "/") THEN Append(d, "/") ELSE d]

rtGetEnv(e, name) == [err |-> "RT_OK", v |-> rtStringOf(getenv(e, name))]

rtGetHomeDirectory(e) ==
  LET homeDir == "HOME"
      g == rtGetEnv(e, homeDir)
  IN IF g.err = "RT_OK"
     THEN rtEnsureTrailingPathSeparator(g.v)
     ELSE [err |-> "RT_FAIL", d |-> g.v]

\* rtGetEnvAsString that returns the raw value and ignores the default
rtGetEnvAsString_NoDefault(e, name, defaultValue) == rtGetEnv(e, name).v

rtGetEnvAsString(e, name, defaultValue) ==
  LET v == rtGetEnv(e, name).v
  IN IF isEmpty(v) THEN rtStringOf(defaultValue) ELSE v

rtPathUtilPutEnv(e, name, value) ==
  IF value # NULL
  THEN LET r == setenv(e, name, value)
       IN [err |-> IF r.ret = 0 THEN "RT_OK" ELSE "RT_ERROR", env |-> r.env]
  ELSE LET r == unsetenv(e, name)
       IN [err |-> IF r.ret = 0 THEN "RT_OK" ELSE "RT_ERROR", env |-> r.env]

Op(op, name, arg, err, str) ==
  [op |-> op, name |-> name, arg |-> arg, err |-> err, str |-> str,
   rebuilt |-> FALSE, prev |-> <<>>]

NoOp == Op("none", "", <<>>, "RT_OK", <<>>)

EnvInit ==
  /\ env \in [EnvNames -> {NULL, <<"/">>}]
  /\ env0 = env
  /\ cwd \in CwdResults
  /\ lastPut = [n \in EnvNames |-> NoPut]
  /\ last = NoOp

EnvIdle ==
  /\ env = [n \in EnvNames |-> NULL]
  /\ env0 = env
  /\ cwd = <<"/">>
  /\ lastPut = [n \in EnvNames |-> NoPut]
  /\ last = NoOp

PutEnv ==
  \E name \in EnvNames, value \in EnvValues \cup {NULL} :
    LET r == rtPathUtilPutEnv(env, name, value)
    IN /\ env' = r.env
       /\ lastPut' = [lastPut EXCEPT ![name] = value]
       /\ last' = Op("rtPathUtilPutEnv", name, value, r.err, <<>>)
       /\ UNCHANGED <<env0, cwd, mkVars, dirsVars, ctorVars, rrVars>>

\* the process changes its working directory, or the directory is removed
\* under it so that getcwd fails
Chdir ==
  \E c \in CwdResults :
    /\ cwd' = c
    /\ last' = Op("chdir", "", c, "RT_OK", <<>>)
    /\ UNCHANGED <<env, env0, lastPut, mkVars, dirsVars, ctorVars, rrVars>>

GetEnvAsString ==
  \E name \in EnvNames, def \in {NULL, <<"d">>} :
    /\ last' = Op("rtGetEnvAsString", name, def, "RT_OK",
                  rtGetEnvAsString(env, name, def))
    /\ UNCHANGED <<env, env0, cwd, lastPut, mkVars, dirsVars, ctorVars, rrVars>>

GetHomeDirectory ==
  LET r == rtGetHomeDirectory(env)
  IN /\ last' = Op("rtGetHomeDirectory", "HOME", <<>>, r.err, r.d)
     /\ UNCHANGED <<env, env0, cwd, lastPut, mkVars, dirsVars, ctorVars, rrVars>>

GetCurrentDirectory ==
  \E d \in {<<>>, <<"o">>} :
    LET r == rtGetCurrentDirectory(cwd, d)
    IN /\ last' = Op("rtGetCurrentDirectory", "", d, r.err, r.d)
       /\ UNCHANGED <<env, env0, cwd, lastPut, mkVars, dirsVars, ctorVars, rrVars>>

EnvNext ==
  \/ PutEnv
  \/ Chdir
  \/ GetEnvAsString
  \/ GetHomeDirectory
  \/ GetCurrentDirectory

----------------------------------------------------------------------------
(* rtModuleDirs *)

\* std::string::npos
npos == -1

\* std::string::find(str): index of the first occurrence of str, else npos
stdFind(s, str) ==
  LET hits == {k \in 1..(Len(s) - Len(str) + 1) :
                 SubSeq(s, k, k + Len(str) - 1) = str}
  IN IF hits = {} THEN npos
     ELSE (CHOOSE k \in hits : \A j \in hits : k <= j) - 1

\* std::string::substr(pos, n) and substr(pos)
substr(s, pos, n) ==
  SubSeq(s, pos + 1, IF pos + n > Len(s) THEN Len(s) ELSE pos + n)
substrFrom(s, pos) == SubSeq(s, pos + 1, Len(s))

rtModuleDirSeparator == <<":">>

\* CtorBody without the push_back for a value that ends with the separator
CtorBody_NoTrailing(st) ==
  LET sep == rtModuleDirSeparator
      index == stdFind(st.env, sep)
  IN IF index # npos
     THEN [env |-> substrFrom(st.env, index + Len(sep)),
           dirs |-> Append(st.dirs, substr(st.env, 0, index))]
     ELSE [env |-> <<>>, dirs |-> Append(st.dirs, st.env)]

\* one pass through the body of the constructor's while loop
CtorBody(st) ==
  LET sep == rtModuleDirSeparator
      index == stdFind(st.env, sep)
  IN IF index # npos
     THEN LET d1 == Append(st.dirs, substr(st.env, 0, index))
              e1 == substrFrom(st.env, index + Len(sep))
          IN [env |-> e1,
              dirs |-> IF Len(e1) = 0 THEN Append(d1, e1) ELSE d1]
     ELSE [env |-> <<>>, dirs |-> Append(st.dirs, st.env)]

RECURSIVE CtorLoop(_)
CtorLoop(st) == IF Len(st.env) > 0 THEN CtorLoop(CtorBody(st)) ELSE st

\* rtModuleDirs::rtModuleDirs(env_name): the mModuleDirs it builds
rtModuleDirsCtor(e, c, env_name) ==
  LET cwdStr == rtGetCurrentDirectory(c, <<>>).d
      rt_env == rtGetEnvAsString(e, env_name, cwdStr)
  IN CtorLoop([env |-> rt_env, dirs |-> <<>>]).dirs

\* operator new: the smallest free object id
NewObject(hp) == CHOOSE id \in 1..MaxObjects :
                   id \notin DOMAIN hp /\ \A j \in 1..(id - 1) : j \in DOMAIN hp

\* instance() without the NULL test: every call constructs
instance_NoCheck(mi, hp, e, c, env_name) ==
  LET id == NewObject(hp)
  IN [mModuleInstance |-> id,
      heap |-> [k \in DOMAIN hp \cup {id} |->
                  IF k = id THEN rtModuleDirsCtor(e, c, env_name) ELSE hp[k]]]

\* rtModuleDirs::instance(env_name)
instance(mi, hp, e, c, env_name) ==
  IF mi = 0
  THEN LET id == NewObject(hp)
       IN [mModuleInstance |-> id,
           heap |-> [k \in DOMAIN hp \cup {id} |->
                       IF k = id THEN rtModuleDirsCtor(e, c, env_name) ELSE hp[k]]]
  ELSE [mModuleInstance |-> mi, heap |-> hp]

\* destroy() that releases nothing
destroy_Keep(mi, hp) == [mModuleInstance |-> mi, heap |-> hp]

\* rtModuleDirs::destroy()
destroy(mi, hp) ==
  [mModuleInstance |-> 0,
   heap |-> IF mi # 0 THEN [k \in DOMAIN hp \ {mi} |-> hp[k]] ELSE hp]

\* rtModuleDirs::iterator(): the entries from begin() to end()
iterator(hp, mi) == hp[mi]

rtConcatenatePath(dir, file) == rtEnsureTrailingPathSeparator(dir).d \o file

NoDestroy == [valid |-> FALSE, dirs |-> <<>>]
EmptyHeap == [k \in {} |-> <<>>]

DirsInit ==
  /\ mModuleInstance = 0
  /\ heap = EmptyHeap
  /\ destroyed = NoDestroy

Instance ==
  \E env_name \in EnvNames :
    LET r == instance(mModuleInstance, heap, env, cwd, env_name)
    IN /\ Cardinality(DOMAIN heap) < MaxObjects
       /\ mModuleInstance' = r.mModuleInstance
       /\ heap' = r.heap
       /\ destroyed' = NoDestroy
       /\ last' = [Op("instance", env_name, <<>>, "RT_OK", <<>>)
                     EXCEPT !.rebuilt = destroyed.valid,
                            !.prev = destroyed.dirs]
       /\ UNCHANGED <<env, env0, cwd, lastPut, mkVars, ctorVars, rrVars>>

Destroy ==
  LET r == destroy(mModuleInstance, heap)
  IN /\ mModuleInstance' = r.mModuleInstance
     /\ heap' = r.heap
     /\ destroyed' = IF mModuleInstance # 0
                     THEN [valid |-> TRUE, dirs |-> heap[mModuleInstance]]
                     ELSE destroyed
     /\ last' = Op("destroy", "", <<>>, "RT_OK", <<>>)
     /\ UNCHANGED <<env, env0, cwd, lastPut, mkVars, ctorVars, rrVars>>

\* rtGetRootModulePath(file): dereferencing begin() of an empty vector is
\* undefined; the call then crashes or reads some string
Garbage == {<<>>, <<"g">>}
Crash == <<"crash">>
DefaultEnvName == "RT_MODULE_PATH"

GetRootModulePath ==
  \E file \in {NULL, <<"f">>}, g \in Garbage \cup {Crash} :
    LET r == instance(mModuleInstance, heap, env, cwd, DefaultEnvName)
        dirs == iterator(r.heap, r.mModuleInstance)
        f == IF file # NULL THEN file ELSE <<>>
    IN /\ Cardinality(DOMAIN heap) < MaxObjects
       /\ mModuleInstance' = r.mModuleInstance
       /\ heap' = r.heap
       /\ destroyed' = NoDestroy
       /\ IF dirs # <<>>
          THEN last' = Op("rtGetRootModulePath", "", file, "RT_OK",
                          rtConcatenatePath(dirs[1], f))
          ELSE last' = Op("rtGetRootModulePath", "", file, "RT_OK",
                          IF g = Crash THEN Crash ELSE rtConcatenatePath(g, f))
       /\ UNCHANGED <<env, env0, cwd, lastPut, mkVars, ctorVars, rrVars>>

DirsNext ==
  \/ PutEnv
  \/ Chdir
  \/ Instance
  \/ Destroy
  \/ GetRootModulePath

----------------------------------------------------------------------------
(* The constructor as a function of the variable's value and of getcwd *)

ListChar == {"x", ":"}
ListValues == StringsUpTo(ListChar, MaxListLen)

CtorInit ==
  /\ ctorIn = [value |-> NULL, cwd |-> NULL]
  /\ ctorOut = <<>>
  /\ ctorCalled = FALSE

Construct ==
  /\ ~ctorCalled
  /\ \E v \in ListValues \cup {NULL}, c \in CwdResults :
       /\ ctorIn' = [value |-> v, cwd |-> c]
       /\ ctorOut' = rtModuleDirsCtor([n \in EnvNames |->
                        IF n = DefaultEnvName THEN v ELSE NULL], c, DefaultEnvName)
  /\ ctorCalled' = TRUE
  /\ UNCHANGED <<mkVars, envVars, dirsVars, rrVars>>

CtorNext == Construct

----------------------------------------------------------------------------
(* rtResolveRelativePath *)

\* rtResolveRelativePath without the removal of the query part
rtResolveRelativePath_KeepQuery(relative, base) ==
  LET p1 == find(base, 0, "#")
      b1 == IF p1 # -1 THEN substring(base, 0, p1) ELSE base
      slashes == {k \in 0..(Len(b1) - 1) : find(b1, k, "/") = k}
      lastPos == IF slashes = {} THEN -1
                 ELSE CHOOSE k \in slashes : \A j \in slashes : j <= k
      path == IF lastPos # -1 THEN substring(b1, 0, lastPos + 1) ELSE <<>>
  IN path \o relative

RECURSIVE LastSlash(_, _, _)
\* the while loop: lastPos follows pos until find returns -1
LastSlash(baseUrl, pos, lastPos) ==
  IF pos # -1 THEN LastSlash(baseUrl, find(baseUrl, pos + 1, "/"), pos)
  ELSE lastPos

rtResolveRelativePath(relative, base) ==
  LET p1 == find(base, 0, "#")
      b1 == IF p1 # -1 THEN substring(base, 0, p1) ELSE base
      p2 == find(b1, 0, "?")
      b2 == IF p2 # -1 THEN substring(b1, 0, p2) ELSE b1
      lastPos == LastSlash(b2, find(b2, 0, "/"), -1)
      path == IF lastPos # -1 THEN substring(b2, 0, lastPos + 1) ELSE <<>>
  IN path \o relative

UrlChar == {"/", "#", "?", "c"}

RrInit ==
  /\ rrRelative = <<>>
  /\ rrBase = <<>>
  /\ rrResult = <<>>
  /\ rrCalled = FALSE

ResolveRelativePath ==
  /\ ~rrCalled
  /\ \E relative \in StringsUpTo(UrlChar, MaxRelLen),
        base \in StringsUpTo(UrlChar, MaxBaseLen) :
       /\ rrRelative' = relative
       /\ rrBase' = base
       /\ rrResult' = rtResolveRelativePath(relative, base)
  /\ rrCalled' = TRUE
  /\ UNCHANGED <<mkVars, envVars, dirsVars, ctorVars>>

RrNext == ResolveRelativePath

----------------------------------------------------------------------------
(* Specifications *)

MkNext == MakeDirectory

InitMk == MkInit /\ EnvIdle /\ DirsInit /\ CtorInit /\ RrInit

SpecMk == InitMk /\ [][MkNext]_vars

InitEnv == MkIdle /\ EnvInit /\ DirsInit /\ CtorInit /\ RrInit

SpecEnv == InitEnv /\ [][EnvNext]_vars

InitDirs == MkIdle /\ EnvInit /\ DirsInit /\ CtorInit /\ RrInit

SpecDirs == InitDirs /\ [][DirsNext]_vars

InitCtor == MkIdle /\ EnvIdle /\ DirsInit /\ CtorInit /\ RrInit

SpecCtor == InitCtor /\ [][CtorNext]_vars

InitResolve == MkIdle /\ EnvIdle /\ DirsInit /\ CtorInit /\ RrInit

SpecResolve == InitResolve /\ [][RrNext]_vars

----------------------------------------------------------------------------
(* Claims *)

\* C1: when rtMakeDirectory has returned, its result is true exactly when
\* the full path exists as a filesystem entry.
C1_TrueIffPathExists ==
  mkCalls > 0 => (mkRet <=> rtFileExists(fs, mkDir))

\* a call that created at least two directories and returned true
C1_Witness ==
  mkCalls > 0 /\ mkRet /\ Len(mkCreates) >= 2 /\ rtFileExists(fs, mkDir)

IsPrefix(p, s) == Len(p) <= Len(s) /\ SubSeq(s, 1, Len(p)) = p

\* C2: a call visits prefixes of the path in order of length, creates only
\* prefixes that did not exist, in strictly increasing length, stops at the
\* first failed create and then returns false; a call on a path that the
\* call before created returns true and creates nothing.
C2_OrderedCreatesStopAtFailure ==
  [][mkCalls' = mkCalls + 1 =>
       /\ \A k \in 1..Len(mkVisits') : IsPrefix(mkVisits'[k], mkDir')
       /\ \A k \in 1..Len(mkVisits') : \A j \in 1..Len(mkVisits') :
            k < j => Len(mkVisits'[k]) <= Len(mkVisits'[j])
       /\ \A k \in 1..Len(mkCreates') :
            /\ \E j \in 1..Len(mkVisits') : mkVisits'[j] = mkCreates'[k][1]
            /\ ~rtFileExists(fs, mkCreates'[k][1])
            /\ k < Len(mkCreates') =>
                 /\ mkCreates'[k][2] = 0
                 /\ Len(mkCreates'[k][1]) < Len(mkCreates'[k + 1][1])
       /\ (\E k \in 1..Len(mkCreates') : mkCreates'[k][2] # 0) =>
            /\ ~mkRet'
            /\ mkVisits'[Len(mkVisits')] = mkCreates'[Len(mkCreates')][1]
       /\ (mkCalls > 0 /\ mkRet /\ mkDir' = mkDir) =>
            (mkRet' /\ mkCreates' = <<>> /\ fs' = fs)
  ]_vars

\* a second call on a path whose directories the first call created
C2_Witness ==
  /\ mkCalls = 2
  /\ mkPrev.called /\ mkPrev.dir = mkDir /\ mkPrev.ret
  /\ Len(mkPrev.creates) >= 2
  /\ mkRet /\ mkCreates = <<>>

\* the current list of the singleton
Entries == iterator(heap, mModuleInstance)

\* C3: while an instance exists, a step other than destroy() keeps the
\* instance and the entries iterator() returns; never more than one
\* rtModuleDirs object is alive.
C3_ListFixedUntilDestroy ==
  /\ [](Cardinality(DOMAIN heap) <= 1)
  /\ [][(mModuleInstance # 0 /\ last'.op # "destroy") =>
          /\ mModuleInstance' = mModuleInstance
          /\ iterator(heap', mModuleInstance') = Entries]_vars

\* instance(envName) returned an existing list that a construction in the
\* present environment and working directory would not produce
C3_Witness ==
  /\ last.op = "instance" /\ ~last.rebuilt
  /\ mModuleInstance # 0
  /\ Entries # rtModuleDirsCtor(env, cwd, last.name)
  /\ lastPut[last.name] # NoPut

RECURSIVE Join(_, _)
Join(list, sep) ==
  IF list = <<>> THEN <<>>
  ELSE IF Len(list) = 1 THEN list[1]
  ELSE list[1] \o sep \o Join(Tail(list), sep)

\* dirs is what the value of name in e, or else the working directory c,
\* splits into: no entry holds a separator and the entries join to the value
BuiltFromCurrent(dirs, e, c, name) ==
  LET v == rtStringOf(e[name])
      from == IF v # <<>> THEN v ELSE rtStringOf(c)
  IN /\ \A k \in 1..Len(dirs) : \A j \in 1..Len(dirs[k]) : dirs[k][j] # ":"
     /\ IF from = <<>> THEN dirs = <<>> ELSE Join(dirs, <<":">>) = from

\* C4: the first instance(envName) after a destroy() that released an
\* instance builds the list from the value envName has at that call;
\* destroy() without an instance changes nothing.
C4_RebuildReadsCurrentValue ==
  /\ [][(last'.op = "instance" /\ destroyed.valid) =>
          /\ mModuleInstance' # 0
          /\ BuiltFromCurrent(iterator(heap', mModuleInstance'), env, cwd,
                              last'.name)]_vars
  /\ [][(last'.op = "destroy" /\ mModuleInstance = 0) =>
          (mModuleInstance' = 0 /\ heap' = heap)]_vars

\* instance() after destroy() built a list other than the destroyed one,
\* from a variable that is set
C4_Witness ==
  /\ last.op = "instance" /\ last.rebuilt
  /\ mModuleInstance # 0
  /\ last.prev # Entries
  /\ rtStringOf(env[last.name]) # <<>>

SepPositions(v) == {k \in 1..Len(v) : v[k] = ":"}
NthSep(v, i) ==
  CHOOSE k \in SepPositions(v) :
    Cardinality({j \in SepPositions(v) : j < k}) = i - 1
\* the substrings of v between successive separators
Between(v) ==
  LET n == Cardinality(SepPositions(v))
  IN [i \in 1..(n + 1) |->
        SubSeq(v, IF i = 1 THEN 1 ELSE NthSep(v, i - 1) + 1,
                  IF i = n + 1 THEN Len(v) ELSE NthSep(v, i) - 1)]

\* C5: for a non-empty value the constructor yields the substrings between
\* successive separators; a value ending with a separator gives one empty
\* last entry; the entries joined with the separator are the value.
C5_SplitOnSeparator ==
  (ctorCalled /\ ctorIn.value # NULL /\ ctorIn.value # <<>>) =>
     /\ ctorOut = Between(ctorIn.value)
     /\ endsWith(ctorIn.value, ":") =>
          /\ ctorOut[Len(ctorOut)] = <<>>
          /\ Len(ctorOut) = Cardinality(SepPositions(ctorIn.value)) + 1
     /\ Join(ctorOut, <<":">>) = ctorIn.value

\* a value with two separators, the last one at its end
C5_Witness ==
  /\ ctorCalled /\ ctorIn.value # NULL
  /\ endsWith(ctorIn.value, ":")
  /\ Len(ctorOut) = 3 /\ ctorOut[1] # <<>> /\ ctorOut[3] = <<>>

\* base cut at its first '#' or '?'
CutBase(base) ==
  LET marks == {k \in 1..Len(base) : base[k] \in {"#", "?"}}
  IN IF marks = {} THEN base
     ELSE SubSeq(base, 1, (CHOOSE k \in marks : \A j \in marks : k <= j) - 1)
\* b up to and including its last '/', empty without one
UpToLastSlash(b) ==
  LET sl == {k \in 1..Len(b) : b[k] = "/"}
  IN IF sl = {} THEN <<>>
     ELSE SubSeq(b, 1, CHOOSE k \in sl : \A j \in sl : j <= k)

\* C6: rtResolveRelativePath(relative, base) is relative appended to base
\* cut at its first '#' or '?' and then cut after its last '/'.
C6_ResolveAgainstBase ==
  rrCalled => rrResult = UpToLastSlash(CutBase(rrBase)) \o rrRelative

\* a base with a '/' before a '?' that comes before a '#', and a '/' after
\* the '?'
C6_Witness ==
  /\ rrCalled /\ rrRelative # <<>>
  /\ \E i, j, k, l \in 1..Len(rrBase) :
       /\ i < j /\ j < k /\ j < l
       /\ rrBase[i] = "/" /\ rrBase[j] = "?" /\ rrBase[k] = "/" /\ rrBase[l] = "#"
       /\ \A m \in 1..(j - 1) : rrBase[m] \notin {"#", "?"}
       /\ rrResult = SubSeq(rrBase, 1, j - 1) \o rrRelative

\* C7: rtGetHomeDirectory fails when HOME is unset or empty, and succeeds
\* only with a non-empty HOME, then with a path that ends in '/'.
C7_HomeFailsWhenUnsetOrEmpty ==
  last.op = "rtGetHomeDirectory" =>
     /\ rtStringOf(env["HOME"]) = <<>> => last.err # "RT_OK"
     /\ last.err = "RT_OK" =>
          (rtStringOf(env["HOME"]) # <<>> /\ endsWith(last.str, "/"))

\* C8: when getcwd fails, rtGetCurrentDirectory(d) leaves d empty whatever
\* d held before.
C8_EmptyWhenGetcwdFails ==
  (last.op = "rtGetCurrentDirectory" /\ cwd = NULL) => last.str = <<>>

\* C9: rtGetEnvAsString(name, def) returns the non-empty value of the last
\* rtPathUtilPutEnv for name; def when that call passed NULL or the empty
\* string, or when there was no call and the variable was unset at start;
\* calls for other names leave the value read for name as it was at start.
C9_GetAfterPut ==
  last.op = "rtGetEnvAsString" =>
     LET lp == lastPut[last.name]
         def == rtStringOf(last.arg)
     IN /\ (lp \notin {NoPut, NULL, <<>>}) => last.str = lp
        /\ (lp \in {NULL, <<>>}) => last.str = def
        /\ (lp = NoPut /\ env0[last.name] = NULL) => last.str = def
        /\ (lp = NoPut /\ env0[last.name] # NULL) => last.str = env0[last.name]

\* a variable set at start and then removed reads as the default, after a
\* call that set the other variable
C9_Witness ==
  /\ last.op = "rtGetEnvAsString"
  /\ env0[last.name] # NULL /\ lastPut[last.name] = NULL
  /\ last.arg # NULL /\ last.str = last.arg
  /\ \E n \in EnvNames \ {last.name} : lastPut[n] \notin {NoPut, NULL, <<>>}

\* C10: whenever the singleton exists its entry list has at least one entry.
C10_ListNeverEmpty ==
  mModuleInstance # 0 => Len(Entries) >= 1

====
